---------------------------- MODULE Spec2Model ----------------------------
(***************************************************************************)
(* A model of the funcy combinator library: the predicate inverter Not,    *)
(* the move-tested iterator adapters (IterMove), the reference-mapped      *)
(* adapters (IterRef) and the bind! macro.                                 *)
(*                                                                         *)
(* A behaviour is one use of the library by a caller: the caller builds a  *)
(* source iterator over `src`, picks a predicate or a mapping function,    *)
(* and calls one operation; loops advance one iteration per step, lazy     *)
(* adapters advance one next() call per step.                              *)
(***************************************************************************)
EXTENDS Integers, Sequences, FiniteSets

VARIABLES
    op,      \* the operation the caller invoked ("none" before any call)
    pc,      \* position of the running operation: "idle", "ready", "loop", "done"
    src,     \* the values the source iterator was built over
    front,   \* number of items the source has yielded from the front
    back,    \* number of items the source has yielded from the back
    pulls,   \* number of next()/next_back() calls made on the source
    count,   \* Enumerate's counter
    pred,    \* the test function handed to the operation
    func,    \* the mapping function handed to a map adapter
    seen,    \* hidden state of the stateful predicate (the captured HashSet)
    wargs,   \* arguments the operation passed to the function it was given
    calls,   \* arguments the innermost (user) function was invoked with
    nexts,   \* number of next() calls made on the adapter
    out,     \* outputs produced so far, in order
    ret,     \* the value the last call returned
    log,     \* direct calls of a Not wrapper: [disc, arg, pre, ret]
    alive,   \* whether the Not wrapper has not been consumed by call_once
    bexpr,   \* the receiver expression of an expression-bound function
    evals,   \* number of times the receiver expression has been evaluated
    recvs,   \* the receiver value each call of the bound function operated on
    var_v,   \* the caller's variable v: the receiver bound or called on
    moved    \* whether the caller's variable has been moved out of

vars == <<op, pc, src, front, back, pulls, count, pred, func, seen, wargs,
          calls, nexts, out, ret, log, alive, bexpr, evals, recvs, var_v, moved>>

---------------------------------------------------------------------------
(* Bounds of the model.                                                    *)

\* Longest source sequence.
MaxLen == 4

\* Most direct calls of a Not wrapper or of a bound function.
MaxCalls == 3

\* Most next() calls made on a lazy adapter after its source ran out.
MaxExtra == 2

\* The i32 values sources are built from: negative, zero, positive, odd, even.
Elems == {-1, 0, 1, 2}

Sources == UNION {[1..n -> Elems] : n \in 0..MaxLen}

---------------------------------------------------------------------------
(* Values.                                                                 *)

\* Option<T>
None == [some |-> FALSE]

Some(v) == [some |-> TRUE, val |-> v]

\* A bool returned by any_m / all_m.
Bool(b) == [bool |-> b]

\* A source element: its value and how many times it has been duplicated
\* (gen = 0 is the value the source owns, the original).
Item(v) == [val |-> v, gen |-> 0]

\* Clone::clone of an element: an independent duplicate of the same value.
Clone(x) == [val |-> x.val, gen |-> x.gen + 1]

\* Box<IntWrapper>: an owner with one level of indirection to its target.
Box(x) == [target |-> x]

\* Deref::deref / DerefMut::deref_mut
Deref(b) == b.target

\* Rust's integer division and remainder truncate toward zero.
TruncDiv(a, b) == IF a >= 0 THEN a \div b ELSE -((-a) \div b)

Rem(a, b) == a - b * TruncDiv(a, b)


---------------------------------------------------------------------------
(* User functions handed to the library.                                   *)

\* A user function by name.
Fn(n) == [kind |-> "fn", name |-> n]

\* Not(p): the wrapper struct holding the inner predicate.
Not(p) == [kind |-> "Not", inner |-> p]

\* The body of a user predicate applied to element x with hidden state s:
\* the bool it returns and the hidden state it leaves.
UserFn(n, s, x) ==
    CASE n = "is_negative" -> [ret |-> x.val < 0, seen |-> s]
      [] n = "is_positive" -> [ret |-> x.val > 0, seen |-> s]
      [] n = "is_odd"      -> [ret |-> Rem(x.val, 2) # 0, seen |-> s]
      [] n = "odd_once"    -> [ret |-> Rem(x.val, 2) # 0, seen |-> s]
      [] n = "unique"      -> [ret |-> x.val \notin s, seen |-> s \cup {x.val}]

\* Predicates that never touch hidden state (Fn); "unique" is FnMut only,
\* "odd_once" moves its captured tester and is FnOnce only.
PureNames == {"is_negative", "is_positive", "is_odd"}

IsFn(p) == p.name \in PureNames

IsFnMut(p) == p.name \in PureNames \cup {"unique"}

\* A faulty variant of Not::call_once: the result is passed through unnegated.
Not_call_once_passthrough(p, s, x) ==
    LET r == UserFn(p.inner.name, s, x)
    IN  [ret |-> r.ret, seen |-> r.seen, calls |-> <<x>>]

\* Not::call_once: !(self.0)(arg)
Not_call_once(p, s, x) ==
    LET r == UserFn(p.inner.name, s, x)
    IN  [ret |-> ~r.ret, seen |-> r.seen, calls |-> <<x>>]

\* A faulty variant of Not::call_mut: the inner predicate is invoked a second time
\* and the second answer is the one negated.
Not_call_mut_twice(p, s, x) ==
    LET r1 == UserFn(p.inner.name, s, x)
        r2 == UserFn(p.inner.name, r1.seen, x)
    IN  [ret |-> ~r2.ret, seen |-> r2.seen, calls |-> <<x, x>>]

\* Not::call_mut: !(self.0)(arg)
Not_call_mut(p, s, x) ==
    LET r == UserFn(p.inner.name, s, x)
    IN  [ret |-> ~r.ret, seen |-> r.seen, calls |-> <<x>>]

\* Not::call: !(self.0)(arg)
Not_call(p, s, x) ==
    LET r == UserFn(p.inner.name, s, x)
    IN  [ret |-> ~r.ret, seen |-> r.seen, calls |-> <<x>>]

\* An adapter invoking the FnMut it holds: a Not wrapper goes through
\* call_mut, a plain function is invoked directly.
CallPred(p, s, x) ==
    IF p.kind = "Not"
    THEN Not_call_mut(p, s, x)
    ELSE LET r == UserFn(p.name, s, x)
         IN  [ret |-> r.ret, seen |-> r.seen, calls |-> <<x>>]

\* Predicates taking the element by value (IterMove).
MovePreds ==
    {Fn("is_negative"), Fn("is_positive"), Fn("unique"),
     Not(Fn("is_negative")), Not(Fn("is_positive")), Not(Fn("unique"))}

\* Predicates taking the element by reference (Iterator::find).
RefPreds ==
    {Fn("is_odd"), Fn("unique"), Not(Fn("is_odd")), Not(Fn("unique"))}

---------------------------------------------------------------------------
(* The source iterator (array::IntoIter): exact-size and double-ended.     *)

DerefOps == {"map_deref", "map_deref_mut"}

\* The i-th element the source owns; the deref adapters run over boxes.
SrcItem(i) == IF op \in DerefOps THEN Box(Item(src[i])) ELSE Item(src[i])

\* ExactSizeIterator::len
iter_len == Len(src) - front - back

\* Iterator::next on the source: the item it returns.
iter_next == IF iter_len > 0 THEN Some(SrcItem(front + 1)) ELSE None

\* DoubleEndedIterator::next_back on the source: the item it returns.
iter_next_back == IF iter_len > 0 THEN Some(SrcItem(Len(src) - back)) ELSE None

\* The state a call of next() leaves in the source.
PullFront ==
    /\ front' = IF iter_len > 0 THEN front + 1 ELSE front
    /\ pulls' = pulls + 1
    /\ back' = back

\* The state a call of next_back() leaves in the source.
PullBack ==
    /\ back' = IF iter_len > 0 THEN back + 1 ELSE back
    /\ pulls' = pulls + 1
    /\ front' = front

\* The state an invocation of the held predicate leaves: r is what CallPred
\* returned for argument x.
Tested(r, x) ==
    /\ seen' = r.seen
    /\ wargs' = Append(wargs, x)
    /\ calls' = calls \o r.calls

\* A caller that has not called anything yet.
Fresh == op = "none"

\* A call that enters operation o over a fresh source s with state st.
Start(o, s, st) ==
    /\ Fresh
    /\ op' = o
    /\ src' = s
    /\ pc' = st

---------------------------------------------------------------------------
(* IterMove: the move-tested adapters.                                     *)

MoveLoops == {"find_m", "any_m", "all_m", "position_m", "rposition_m"}

\* IterMove::filter_m: builds FilterMove { iter: self, pred }.
filter_m(s, p) ==
    /\ Start("filter_m", s, "ready")
    /\ pred' = p
    /\ UNCHANGED <<front, back, pulls, count, func, seen, wargs, calls,
                   nexts, out, ret, log, alive, bexpr, evals, recvs,
                   var_v, moved>>

\* A faulty variant of FilterMove::next: the scan gives up at the first
\* element that fails the test.
RECURSIVE FilterMove_scan_stop_early(_, _, _, _, _, _)
FilterMove_scan_stop_early(p, f, pl, s, ws, cs) ==
    IF Len(src) - f - back <= 0
    THEN [item |-> None, front |-> f, pulls |-> pl + 1,
          seen |-> s, wargs |-> ws, calls |-> cs]
    ELSE LET item == SrcItem(f + 1)
             r == CallPred(p, s, Clone(item))
         IN  [item |-> IF r.ret THEN Some(item) ELSE None,
              front |-> f + 1, pulls |-> pl + 1,
              seen |-> r.seen, wargs |-> Append(ws, Clone(item)),
              calls |-> cs \o r.calls]

\* The loop of FilterMove::next from source position f:
\*   while let Some(item) = self.iter.next() {
\*       if (self.pred)(item.clone()) { return Some(item); } }
\*   None
\* It returns the item next() yields and the state the loop leaves.
RECURSIVE FilterMove_scan(_, _, _, _, _, _)
FilterMove_scan(p, f, pl, s, ws, cs) ==
    IF Len(src) - f - back <= 0
    THEN [item |-> None, front |-> f, pulls |-> pl + 1,
          seen |-> s, wargs |-> ws, calls |-> cs]
    ELSE LET item == SrcItem(f + 1)
             r == CallPred(p, s, Clone(item))
         IN  IF r.ret
             THEN [item |-> Some(item), front |-> f + 1, pulls |-> pl + 1,
                   seen |-> r.seen, wargs |-> Append(ws, Clone(item)),
                   calls |-> cs \o r.calls]
             ELSE FilterMove_scan(p, f + 1, pl + 1, r.seen,
                                  Append(ws, Clone(item)), cs \o r.calls)

\* FilterMove::next: one call of next() on the adapter.
FilterMove_next ==
    /\ op = "filter_m"
    /\ nexts < Len(src) + MaxExtra
    /\ LET r == FilterMove_scan(pred, front, pulls, seen, wargs, calls)
       IN  /\ front' = r.front
           /\ pulls' = r.pulls
           /\ seen' = r.seen
           /\ wargs' = r.wargs
           /\ calls' = r.calls
           /\ ret' = r.item
           /\ out' = IF r.item.some THEN Append(out, r.item.val) ELSE out
    /\ nexts' = nexts + 1
    /\ UNCHANGED <<op, pc, src, back, count, pred, func, log, alive,
                   bexpr, evals, recvs,
                   var_v, moved>>

\* A call of one of the eager operations, which take the predicate and run
\* a loop over the source.
EnterLoop(o, s, p) ==
    /\ Start(o, s, "loop")
    /\ pred' = p
    /\ UNCHANGED <<front, back, pulls, count, func, seen, wargs, calls,
                   nexts, out, ret, log, alive, bexpr, evals, recvs,
                   var_v, moved>>

\* A faulty variant of find_m's loop body: the duplicate is returned.
find_m_found_clone(item) == Some(Clone(item))

\* What find_m returns for the element whose duplicate passed the test:
\* return Some(item)
find_m_found(item) == Some(item)

\* IterMove::find_m, one iteration of
\*   for item in self { if pred(item.clone()) { return Some(item); } }  None
find_m ==
    /\ op = "find_m" /\ pc = "loop"
    /\ PullFront
    /\ IF iter_next.some
       THEN LET item == iter_next.val
                r == CallPred(pred, seen, Clone(item))
            IN  /\ Tested(r, Clone(item))
                /\ IF r.ret
                   THEN ret' = find_m_found(item) /\ pc' = "done"
                   ELSE UNCHANGED <<ret, pc>>
       ELSE /\ ret' = None /\ pc' = "done"
            /\ UNCHANGED <<seen, wargs, calls>>
    /\ UNCHANGED <<op, src, count, pred, func, nexts, out, log, alive,
                   bexpr, evals, recvs,
                   var_v, moved>>

\* A faulty variant of any_m's test: the answer is taken inverted.
any_m_hit_inverted(r) == ~r.ret

\* A faulty variant of any_m's test: a hit does not end the scan.
any_m_hit_never(r) == FALSE

\* Whether any_m stops on the answer r of the predicate: if pred(item)
any_m_hit(r) == r.ret

\* IterMove::any_m, one iteration of
\*   for item in self { if pred(item) { return true; } }  false
any_m ==
    /\ op = "any_m" /\ pc = "loop"
    /\ PullFront
    /\ IF iter_next.some
       THEN LET item == iter_next.val
                r == CallPred(pred, seen, item)
            IN  /\ Tested(r, item)
                /\ IF any_m_hit(r)
                   THEN ret' = Bool(TRUE) /\ pc' = "done"
                   ELSE UNCHANGED <<ret, pc>>
       ELSE /\ ret' = Bool(FALSE) /\ pc' = "done"
            /\ UNCHANGED <<seen, wargs, calls>>
    /\ UNCHANGED <<op, src, count, pred, func, nexts, out, log, alive,
                   bexpr, evals, recvs,
                   var_v, moved>>

\* IterMove::all_m, one iteration of
\*   for item in self { if !pred(item) { return false; } }  true
all_m ==
    /\ op = "all_m" /\ pc = "loop"
    /\ PullFront
    /\ IF iter_next.some
       THEN LET item == iter_next.val
                r == CallPred(pred, seen, item)
            IN  /\ Tested(r, item)
                /\ IF ~r.ret
                   THEN ret' = Bool(FALSE) /\ pc' = "done"
                   ELSE UNCHANGED <<ret, pc>>
       ELSE /\ ret' = Bool(TRUE) /\ pc' = "done"
            /\ UNCHANGED <<seen, wargs, calls>>
    /\ UNCHANGED <<op, src, count, pred, func, nexts, out, log, alive,
                   bexpr, evals, recvs,
                   var_v, moved>>

\* A faulty variant of Enumerate::next: indices are counted from one.
Enumerate_index_from_one(c) == c + 1

\* Enumerate::next pairs the item with the counter before incrementing it.
Enumerate_index(c) == c

\* IterMove::position_m, one iteration of FilterMap::next over
\*   self.enumerate().filter_map(|(i, item)| if pred(item) { Some(i) } else { None })
position_m ==
    /\ op = "position_m" /\ pc = "loop"
    /\ PullFront
    /\ IF iter_next.some
       THEN LET item == iter_next.val
                i == Enumerate_index(count)
                r == CallPred(pred, seen, item)
            IN  /\ count' = count + 1
                /\ Tested(r, item)
                /\ IF r.ret
                   THEN ret' = Some(i) /\ pc' = "done"
                   ELSE UNCHANGED <<ret, pc>>
       ELSE /\ ret' = None /\ pc' = "done"
            /\ UNCHANGED <<count, seen, wargs, calls>>
    /\ UNCHANGED <<op, src, pred, func, nexts, out, log, alive,
                   bexpr, evals, recvs,
                   var_v, moved>>

\* A faulty variant of Enumerate::next_back: the index counts the items
\* taken from the back.
Enumerate_back_index_reversed(c, len) == c + (Len(src) - front - len - 1)

\* Enumerate::next_back: after taking the last item, its index is the
\* counter plus the number of items left (self.count + self.iter.len()).
Enumerate_back_index(c, len) == c + len

\* IterMove::rposition_m, one iteration of FilterMap::next over
\*   self.enumerate().rev().filter_map(|(i, item)| if pred(item) { Some(i) } else { None })
rposition_m ==
    /\ op = "rposition_m" /\ pc = "loop"
    /\ PullBack
    /\ IF iter_next_back.some
       THEN LET item == iter_next_back.val
                i == Enumerate_back_index(count, iter_len - 1)
                r == CallPred(pred, seen, item)
            IN  /\ Tested(r, item)
                /\ IF r.ret
                   THEN ret' = Some(i) /\ pc' = "done"
                   ELSE UNCHANGED <<ret, pc>>
       ELSE /\ ret' = None /\ pc' = "done"
            /\ UNCHANGED <<seen, wargs, calls>>
    /\ UNCHANGED <<op, src, count, pred, func, nexts, out, log, alive,
                   bexpr, evals, recvs,
                   var_v, moved>>

---------------------------------------------------------------------------
(* Not used through the standard library and called directly.              *)

\* Iterator::find with a by-reference predicate, one iteration of its loop:
\* the predicate borrows the item, and the item is returned on a match.
find ==
    /\ op = "find" /\ pc = "loop"
    /\ PullFront
    /\ IF iter_next.some
       THEN LET item == iter_next.val
                r == CallPred(pred, seen, item)
            IN  /\ Tested(r, item)
                /\ IF r.ret
                   THEN ret' = Some(item) /\ pc' = "done"
                   ELSE UNCHANGED <<ret, pc>>
       ELSE /\ ret' = None /\ pc' = "done"
            /\ UNCHANGED <<seen, wargs, calls>>
    /\ UNCHANGED <<op, src, count, pred, func, nexts, out, log, alive,
                   bexpr, evals, recvs,
                   var_v, moved>>

\* Inner predicates a caller wraps and calls directly.
DirectNames == {"is_odd", "unique", "odd_once"}

\* Not(p): the wrapper is built around the inner predicate p.
Not_new(n) ==
    /\ Start("not", <<>>, "ready")
    /\ pred' = Not(Fn(n))
    /\ alive' = TRUE
    /\ UNCHANGED <<front, back, pulls, count, func, seen, wargs, calls,
                   nexts, out, ret, log, bexpr, evals, recvs,
                   var_v, moved>>

\* The state a direct call of the wrapper leaves: discipline d, argument x,
\* r what the call returned.
Called(d, x, r) ==
    /\ Tested(r, x)
    /\ ret' = Bool(r.ret)
    /\ log' = Append(log, [disc |-> d, arg |-> x, pre |-> seen, ret |-> r.ret])
    /\ UNCHANGED <<op, pc, src, front, back, pulls, count, pred, func,
                   nexts, out, bexpr, evals, recvs,
                   var_v, moved>>

\* FnOnce::call_once on the wrapper: it is consumed by the call.
call_once(v) ==
    /\ op = "not" /\ alive /\ Len(log) < MaxCalls
    /\ Called("call_once", Item(v), Not_call_once(pred, seen, Item(v)))
    /\ alive' = FALSE

\* FnMut::call_mut on the wrapper: the inner predicate must be FnMut.
call_mut(v) ==
    /\ op = "not" /\ alive /\ Len(log) < MaxCalls
    /\ IsFnMut(pred.inner)
    /\ Called("call_mut", Item(v), Not_call_mut(pred, seen, Item(v)))
    /\ alive' = alive

\* Fn::call on the wrapper: the inner predicate must be Fn.
call(v) ==
    /\ op = "not" /\ alive /\ Len(log) < MaxCalls
    /\ IsFn(pred.inner)
    /\ Called("call", Item(v), Not_call(pred, seen, Item(v)))
    /\ alive' = alive

---------------------------------------------------------------------------
(* IterRef: the reference-mapped adapters.                                 *)

MapOps == {"map_ref", "map_ref_mut", "map_deref", "map_deref_mut"}

\* Mapping functions that borrow immutably, and that borrow mutably.
RefFuncs == {"get", "is_odd"}

MutFuncs == {"pop_half"}

\* The body of a mapping function applied to a borrow of x: what it returns
\* and the element as the call leaves it.
UserMap(f, x) ==
    CASE f = "get"      -> [ret |-> x.val, item |-> x]
      [] f = "is_odd"   -> [ret |-> Rem(x.val, 2) # 0, item |-> x]
      [] f = "pop_half" ->
            LET half == TruncDiv(x.val, 2)
            IN  [ret |-> half, item |-> [x EXCEPT !.val = x.val - half]]

\* IterRef::map_ref / map_ref_mut / map_deref / map_deref_mut: builds the
\* adapter struct { iter: self, func }.
map_new(o, s, f) ==
    /\ Start(o, s, "ready")
    /\ func' = f
    /\ UNCHANGED <<front, back, pulls, count, pred, seen, wargs, calls,
                   nexts, out, ret, log, alive, bexpr, evals, recvs,
                   var_v, moved>>

\* The item the source yields at position fr, and the position after it.
SrcAt(fr) == IF Len(src) - fr - back > 0 THEN Some(SrcItem(fr + 1)) ELSE None

SrcAfter(fr) == IF Len(src) - fr - back > 0 THEN fr + 1 ELSE fr

\* A faulty variant of MapRef::next: an element is pulled and dropped
\* before the one that is mapped.
MapRef_effect_skip(f, fr, pl) ==
    LET item == SrcAt(SrcAfter(fr))
    IN  [front |-> SrcAfter(SrcAfter(fr)), pulls |-> pl + 2,
         ret |-> IF item.some THEN Some(UserMap(f, item.val).ret) ELSE None,
         calls |-> IF item.some THEN <<item.val>> ELSE <<>>]

\* MapRef::next: self.iter.next().as_ref().map(&mut self.func)
MapRef_effect(f, fr, pl) ==
    LET item == SrcAt(fr)
    IN  [front |-> SrcAfter(fr), pulls |-> pl + 1,
         ret |-> IF item.some THEN Some(UserMap(f, item.val).ret) ELSE None,
         calls |-> IF item.some THEN <<item.val>> ELSE <<>>]

\* A faulty variant of MapMut::next: a second element is pulled ahead of
\* the one being mapped.
MapMut_effect_lookahead(f, fr, pl) ==
    LET item == SrcAt(fr)
    IN  [front |-> SrcAfter(SrcAfter(fr)), pulls |-> pl + 2,
         ret |-> IF item.some THEN Some(UserMap(f, item.val).ret) ELSE None,
         calls |-> IF item.some THEN <<item.val>> ELSE <<>>]

\* MapMut::next: self.iter.next().as_mut().map(&mut self.func)
\* The mutated element is a temporary and is dropped with the call.
MapMut_effect(f, fr, pl) ==
    LET item == SrcAt(fr)
    IN  [front |-> SrcAfter(fr), pulls |-> pl + 1,
         ret |-> IF item.some THEN Some(UserMap(f, item.val).ret) ELSE None,
         calls |-> IF item.some THEN <<item.val>> ELSE <<>>]

\* MapDeref::next: self.iter.next().as_deref().map(&mut self.func)
MapDeref_effect(f, fr, pl) ==
    LET item == SrcAt(fr)
    IN  [front |-> SrcAfter(fr), pulls |-> pl + 1,
         ret |-> IF item.some THEN Some(UserMap(f, Deref(item.val)).ret) ELSE None,
         calls |-> IF item.some THEN <<Deref(item.val)>> ELSE <<>>]

\* MapDerefMut::next: self.iter.next().as_deref_mut().map(&mut self.func)
MapDerefMut_effect(f, fr, pl) ==
    LET item == SrcAt(fr)
    IN  [front |-> SrcAfter(fr), pulls |-> pl + 1,
         ret |-> IF item.some THEN Some(UserMap(f, Deref(item.val)).ret) ELSE None,
         calls |-> IF item.some THEN <<Deref(item.val)>> ELSE <<>>]

\* The state one call of next() on a map adapter leaves, e being its effect.
Mapped(e) ==
    /\ nexts < Len(src) + MaxExtra
    /\ front' = e.front
    /\ pulls' = e.pulls
    /\ calls' = calls \o e.calls
    /\ wargs' = wargs \o e.calls
    /\ ret' = e.ret
    /\ out' = IF e.ret.some THEN Append(out, e.ret.val) ELSE out
    /\ nexts' = nexts + 1
    /\ UNCHANGED <<op, pc, src, back, count, pred, func, seen, log, alive,
                   bexpr, evals, recvs,
                   var_v, moved>>

MapRef_next == op = "map_ref" /\ Mapped(MapRef_effect(func, front, pulls))

MapMut_next == op = "map_ref_mut" /\ Mapped(MapMut_effect(func, front, pulls))

MapDeref_next == op = "map_deref" /\ Mapped(MapDeref_effect(func, front, pulls))

MapDerefMut_next ==
    op = "map_deref_mut" /\ Mapped(MapDerefMut_effect(func, front, pulls))

---------------------------------------------------------------------------
(* bind!: the expression arm.                                              *)

\* Receiver expressions: the constant 1 + 1, and an expression with a side
\* effect, whose value is the number of times it has been evaluated.
Exprs == {"one_plus_one", "counter"}

\* The value of receiver expression e on its n-th evaluation.
EvalExpr(e, n) == IF e = "one_plus_one" THEN 1 + 1 ELSE n

\* bind!({expr}::mul) expands to the closure |x| { expr }.mul(x): building
\* the closure evaluates nothing.
bind_expr(e) ==
    /\ Start("bind_expr", <<>>, "ready")
    /\ bexpr' = e
    /\ UNCHANGED <<front, back, pulls, count, pred, func, seen, wargs, calls,
                   nexts, out, ret, log, alive, evals, recvs,
                   var_v, moved>>

\* A call of the closure: its body { expr }.mul(x) evaluates the receiver
\* expression and invokes the method on the value.
bound_call(x) ==
    /\ op = "bind_expr" /\ Len(recvs) < MaxCalls
    /\ evals' = evals + 1
    /\ LET rv == EvalExpr(bexpr, evals + 1)
       IN  /\ recvs' = Append(recvs, rv)
           /\ out' = Append(out, rv * x)
           /\ ret' = Some(rv * x)
    /\ wargs' = Append(wargs, x)
    /\ UNCHANGED <<op, pc, src, front, back, pulls, count, pred, func, seen,
                   calls, nexts, log, alive, bexpr,
                   var_v, moved>>

---------------------------------------------------------------------------
(* bind!: the variable arm.                                                *)

\* Arguments a variable-bound function is applied to: the source values
\* and the 3 of (1..=3).for_each(bind!(v::push)).
Args == Elems \cup {3}

\* Vec::push: the vector with x appended.
push(vec, x) == Append(vec, x)

\* bind!(v::push) expands to the closure |x| v.push(x), which borrows the
\* variable v (let mut v = Vec::new()) mutably; building it calls nothing.
bind_var ==
    /\ Start("bind_var", <<>>, "ready")
    /\ var_v' = <<>>
    /\ UNCHANGED <<front, back, pulls, count, pred, func, seen, wargs, calls,
                   nexts, out, ret, log, alive, bexpr, evals, recvs, moved>>

\* A faulty variant of the closure's receiver: the value the variable had
\* when the function was bound (Vec::new()).
bound_receiver_snapshot(cur) == <<>>

\* The receiver a call of |x| v.push(x) operates on: the variable itself,
\* with the value it has when the call is made.
bound_receiver(cur) == cur

\* A call of the variable-bound closure: v.push(x) on the variable.
bound_var_call(x) ==
    /\ op = "bind_var" /\ Len(wargs) < MaxCalls
    /\ LET rv == bound_receiver(var_v)
       IN  /\ recvs' = Append(recvs, rv)
           /\ var_v' = push(rv, x)
    /\ wargs' = Append(wargs, x)
    /\ UNCHANGED <<op, pc, src, front, back, pulls, count, pred, func, seen,
                   calls, nexts, out, ret, log, alive, bexpr, evals, moved>>

---------------------------------------------------------------------------
(* Dot: free functions called as methods of a receiver.                    *)

\* Functions taking the receiver by value, and by shared reference.
ValFuncs == {"char_count"}

BorrowFuncs == {"vec_len", "first_half", "second_half"}

\* The body of a function applied to receiver x (a vector): char_count and
\* vec_len count its elements, first_half and second_half are the two parts
\* of x.split_at(x.len() / 2).
DotFn(f, x) ==
    CASE f = "char_count"  -> Len(x)
      [] f = "vec_len"     -> Len(x)
      [] f = "first_half"  -> SubSeq(x, 1, Len(x) \div 2)
      [] f = "second_half" -> SubSeq(x, Len(x) \div 2 + 1, Len(x))

\* The caller's receiver: let vec = vec![..].
dot_new(x) ==
    /\ Start("dot", <<>>, "ready")
    /\ var_v' = x
    /\ UNCHANGED <<front, back, pulls, count, pred, func, seen, wargs, calls,
                   nexts, out, ret, log, alive, bexpr, evals, recvs, moved>>

\* Dot::dot(self, func): func(self). The receiver is moved into the call.
Dot_dot(x, f) == [ret |-> DotFn(f, x), recv |-> x, moved |-> TRUE]

\* A faulty variant of Dot::dot_ref: the receiver is taken by value.
Dot_dot_ref_by_value(x, f) == [ret |-> DotFn(f, x), recv |-> x, moved |-> TRUE]

\* Dot::dot_ref(&self, func): func(self). The receiver is borrowed for the
\* call and left as it was.
Dot_dot_ref(x, f) == [ret |-> DotFn(f, x), recv |-> x, moved |-> FALSE]

\* The state a call of method m with function f leaves, e being its effect.
Dotted(m, f, e) ==
    /\ op = "dot" /\ ~moved /\ Len(wargs) < MaxCalls
    /\ wargs' = Append(wargs, [m |-> m, f |-> f])
    /\ recvs' = Append(recvs, var_v)
    /\ out' = Append(out, e.ret)
    /\ ret' = Some(e.ret)
    /\ var_v' = e.recv
    /\ moved' = e.moved
    /\ UNCHANGED <<op, pc, src, front, back, pulls, count, pred, func, seen,
                   calls, nexts, log, alive, bexpr, evals>>

\* receiver.dot(f)
dot(f) == Dotted("dot", f, Dot_dot(var_v, f))

\* receiver.dot_ref(f)
dot_ref(f) == Dotted("dot_ref", f, Dot_dot_ref(var_v, f))

---------------------------------------------------------------------------
(* The specification.                                                      *)

Init ==
    /\ op = "none" /\ pc = "idle"
    /\ src = <<>> /\ front = 0 /\ back = 0 /\ pulls = 0 /\ count = 0
    /\ pred = Fn("none") /\ func = "none" /\ seen = {}
    /\ wargs = <<>> /\ calls = <<>> /\ nexts = 0 /\ out = <<>>
    /\ ret = None /\ log = <<>> /\ alive = FALSE
    /\ bexpr = "none" /\ evals = 0 /\ recvs = <<>>
    /\ var_v = <<>> /\ moved = FALSE

Next ==
    \/ Fresh /\ \E s \in Sources, p \in MovePreds : filter_m(s, p)
    \/ FilterMove_next
    \/ Fresh /\ \E o \in MoveLoops, s \in Sources, p \in MovePreds : EnterLoop(o, s, p)
    \/ Fresh /\ \E s \in Sources, p \in RefPreds : EnterLoop("find", s, p)
    \/ find_m
    \/ any_m
    \/ all_m
    \/ position_m
    \/ rposition_m
    \/ find
    \/ \E n \in DirectNames : Not_new(n)
    \/ \E v \in Elems : call_once(v)
    \/ \E v \in Elems : call_mut(v)
    \/ \E v \in Elems : call(v)
    \/ Fresh /\ \E s \in Sources, f \in RefFuncs : map_new("map_ref", s, f)
    \/ Fresh /\ \E s \in Sources, f \in MutFuncs : map_new("map_ref_mut", s, f)
    \/ Fresh /\ \E s \in Sources, f \in RefFuncs : map_new("map_deref", s, f)
    \/ Fresh /\ \E s \in Sources, f \in MutFuncs : map_new("map_deref_mut", s, f)
    \/ MapRef_next
    \/ MapMut_next
    \/ MapDeref_next
    \/ MapDerefMut_next
    \/ \E e \in Exprs : bind_expr(e)
    \/ \E x \in Elems : bound_call(x)
    \/ bind_var
    \/ \E x \in Args : bound_var_call(x)
    \/ Fresh /\ \E x \in Sources : dot_new(x)
    \/ \E f \in ValFuncs : dot(f)
    \/ \E f \in BorrowFuncs : dot_ref(f)

Spec == Init /\ [][Next]_vars

---------------------------------------------------------------------------
(* Reference notions the properties are stated with.                       *)

\* The elements the source owns, in order.
Items(s) == [i \in 1..Len(s) |-> Item(s[i])]

Reverse(s) == [i \in 1..Len(s) |-> s[Len(s) + 1 - i]]

MinOf(S) == CHOOSE x \in S : \A y \in S : x <= y

MaxOf(S) == CHOOSE x \in S : \A y \in S : x >= y

\* What predicate p means on element x in hidden state s: a wrapped
\* predicate answers the opposite of its inner predicate, with its effect.
Meaning(p, s, x) ==
    LET n == IF p.kind = "Not" THEN p.inner.name ELSE p.name
        r == UserFn(n, s, x)
    IN  [ret |-> IF p.kind = "Not" THEN ~r.ret ELSE r.ret, seen |-> r.seen]

\* Whether a predicate is free of hidden state.
Pure(p) == IF p.kind = "Not" THEN IsFn(p.inner) ELSE IsFn(p)

\* Whether a predicate without hidden state is satisfied by value v.
Truth(p, v) == Meaning(p, {}, Item(v)).ret

\* The hidden state the inner function n is in after being called itself,
\* from the empty state, on the elements xs in order.
RECURSIVE HiddenAfter(_, _)
HiddenAfter(n, xs) ==
    IF xs = <<>>
    THEN {}
    ELSE UserFn(n, HiddenAfter(n, SubSeq(xs, 1, Len(xs) - 1)), xs[Len(xs)]).seen

InnerName(p) == IF p.kind = "Not" THEN p.inner.name ELSE p.name

\* Whether the i-th source element satisfies p when the source is scanned
\* from the front (p has been applied to the elements before it) ...
SatFwd(p, i) ==
    Meaning(p, HiddenAfter(InnerName(p), Items(SubSeq(src, 1, i - 1))),
            Item(src[i])).ret

\* ... and when it is scanned from the back.
SatBwd(p, i) ==
    Meaning(p, HiddenAfter(InnerName(p),
                           Reverse(Items(SubSeq(src, i + 1, Len(src))))),
            Item(src[i])).ret

MatchesFwd == {i \in 1..Len(src) : SatFwd(pred, i)}

MatchesBwd == {i \in 1..Len(src) : SatBwd(pred, i)}

\* The lazy adapter has been pulled until it returned None.
Exhausted == nexts > 0 /\ ~ret.some

\* The positions of src holding a value that occurred at an earlier one.
Repeats == {j \in 1..Len(src) : \E i \in 1..(j - 1) : src[i] = src[j]}

---------------------------------------------------------------------------
(* Properties.                                                             *)

\* C1: pulled to exhaustion, filter_m with a pure test yields exactly the
\* source elements (the originals) that satisfy the test, in source order
\* and with their multiplicity.
C1_FilterMoveYieldsMatching ==
    (op = "filter_m" /\ Pure(pred) /\ Exhausted)
        => out = SelectSeq(Items(src), LAMBDA e : Truth(pred, e.val))

C1_Witness ==
    /\ op = "filter_m" /\ Pure(pred) /\ Exhausted
    /\ Len(out) >= 2 /\ Len(out) < Len(src)
    /\ out[1] = out[2]

\* C2: the receiver expression of an expression-bound function has been
\* evaluated exactly once, at bind time, however many calls (none, one or
\* more) were made, and every call operated on that one value.
C2_ExprEvaluatedOnceAtBind ==
    op = "bind_expr"
        => /\ evals = 1
           /\ \A i \in 1..Len(recvs) : recvs[i] = EvalExpr(bexpr, 1)

\* C3: under call_once, call_mut and call alike, Not(p)(x) is the negation
\* of what p answers for x in the state the call found.
C3_NotNegates ==
    \A i \in 1..Len(log) :
        log[i].ret = ~UserFn(pred.inner.name, log[i].pre, log[i].arg).ret

C3_Witness ==
    /\ op = "not"
    /\ {log[i].disc : i \in 1..Len(log)} = {"call", "call_mut", "call_once"}
    /\ {log[i].ret : i \in 1..Len(log)} = {TRUE, FALSE}

\* C4: every call of Not(p) invokes p exactly once with the argument given,
\* so the hidden state is the one the same calls of p itself leave; and
\* find with Not(set insert) returns the first element repeating an
\* earlier one.
C4_NotPreservesEffect ==
    /\ pred.kind = "Not"
        => /\ calls = wargs
           /\ seen = HiddenAfter(pred.inner.name, wargs)
    /\ (op = "find" /\ pc = "done" /\ pred = Not(Fn("unique")))
        => ret = IF Repeats = {} THEN None ELSE Some(Item(src[MinOf(Repeats)]))

C4_Witness ==
    /\ op = "find" /\ pc = "done" /\ pred = Not(Fn("unique"))
    /\ ret.some /\ front = 3 /\ Cardinality(seen) = 2

\* C5: find_m returns the original of the element at the smallest index
\* whose duplicate passes the test, and None exactly when none passes.
C5_FindMoveFirstMatch ==
    (op = "find_m" /\ pc = "done")
        => IF MatchesFwd = {}
           THEN ret = None
           ELSE /\ ret = Some(Item(src[MinOf(MatchesFwd)]))
                /\ front = MinOf(MatchesFwd)

C5_Witness ==
    /\ op = "find_m" /\ pc = "done"
    /\ ret.some /\ front >= 2 /\ front < Len(src)
    /\ wargs[front].gen = 1

\* C6: with a pure test, any_m answers whether some element satisfies it
\* and all_m whether every element does; on the empty source any_m is false
\* and all_m is true.
C6_AnyAllMove ==
    /\ (op = "any_m" /\ pc = "done" /\ Pure(pred))
        => /\ ret = Bool(\E i \in 1..Len(src) : Truth(pred, src[i]))
           /\ src = <<>> => ret = Bool(FALSE)
    /\ (op = "all_m" /\ pc = "done" /\ Pure(pred))
        => /\ ret = Bool(\A i \in 1..Len(src) : Truth(pred, src[i]))
           /\ src = <<>> => ret = Bool(TRUE)

C6_Witness ==
    /\ op = "any_m" /\ pc = "done" /\ Pure(pred)
    /\ ret = Bool(TRUE) /\ front >= 2

\* C7: position_m returns the zero-based index of the first element passing
\* the test (the element find_m returns on the same source), and None when
\* no element passes.
C7_PositionMoveFirstIndex ==
    (op = "position_m" /\ pc = "done")
        => IF MatchesFwd = {}
           THEN ret = None
           ELSE ret = Some(MinOf(MatchesFwd) - 1)

C7_Witness ==
    /\ op = "position_m" /\ pc = "done"
    /\ ret.some /\ ret.val >= 1 /\ ret.val + 1 < Len(src)

\* C8: rposition_m, scanning from the back, returns the index in forward
\* order from zero of the last element passing the test, and None when no
\* element passes.
C8_RPositionMoveLastIndex ==
    (op = "rposition_m" /\ pc = "done")
        => IF MatchesBwd = {}
           THEN ret = None
           ELSE ret = Some(MaxOf(MatchesBwd) - 1)

C8_Witness ==
    /\ op = "rposition_m" /\ pc = "done"
    /\ ret.some /\ back >= 2 /\ ret.val >= 1

\* C9: pulled to exhaustion, map_ref has produced one output per source
\* element, the i-th being the function applied to a borrow of the i-th.
C9_MapRefOutputs ==
    (op = "map_ref" /\ Exhausted)
        => /\ Len(out) = Len(src)
           /\ \A i \in 1..Len(src) : out[i] = UserMap(func, Item(src[i])).ret

C9_Witness ==
    /\ op = "map_ref" /\ Exhausted
    /\ Len(out) >= 2 /\ out[1] # out[2]

\* C10: after k calls of next() on a reference-mapped adapter the source has
\* been pulled k times, the function has been invoked once per output
\* produced, on the element that output came from, and never for a pull
\* that returned None; nothing is pulled ahead.
C10_MapLazyOneCallPerOutput ==
    op \in MapOps
        => /\ pulls = nexts
           /\ front = Len(out)
           /\ Len(out) = IF nexts < Len(src) THEN nexts ELSE Len(src)
           /\ calls = Items(SubSeq(src, 1, Len(out)))

C10_Witness ==
    /\ op \in DerefOps
    /\ Len(src) >= 2 /\ nexts > Len(src) /\ Len(calls) = Len(src)

\* C11: a variable-bound function applies the operation to the value the
\* variable has when the call is made, not to a snapshot taken at bind
\* time: every call sees what the earlier calls left, and binding an empty
\* list to its append and applying it to 1, 2, 3 leaves [1, 2, 3].
C11_BindVarSeesCurrentValue ==
    op = "bind_var"
        => /\ \A i \in 1..Len(recvs) : recvs[i] = SubSeq(wargs, 1, i - 1)
           /\ var_v = wargs
           /\ wargs = <<1, 2, 3>> => var_v = <<1, 2, 3>>

C11_Witness ==
    /\ op = "bind_var"
    /\ wargs = <<1, 2, 3>> /\ var_v = <<1, 2, 3>>
    /\ recvs = << <<>>, <<1>>, <<1, 2>> >>

\* C12: dot(x, f) returns f(x) and dot_ref(x, f) returns f of a borrow of
\* x; dot_ref leaves x unchanged and usable for further calls (only dot
\* moves it).
C12_DotForwards ==
    op = "dot"
        => /\ \A i \in 1..Len(wargs) :
                /\ out[i] = DotFn(wargs[i].f, recvs[1])
                /\ recvs[i] = recvs[1]
           /\ Len(wargs) > 0 => var_v = recvs[1]
           /\ moved = (\E i \in 1..Len(wargs) : wargs[i].m = "dot")

C12_Witness ==
    /\ op = "dot" /\ Len(wargs) = 3
    /\ wargs[1] = [m |-> "dot_ref", f |-> "first_half"]
    /\ wargs[2] = [m |-> "dot_ref", f |-> "second_half"]
    /\ wargs[3] = [m |-> "dot", f |-> "char_count"]
    /\ Len(var_v) = 3 /\ out[1] # out[2] /\ out[3] = 3

\* The operations that stop at a deciding element, and the positions of
\* the deciding elements: a match for find_m and any_m, a miss for all_m.
ShortCircuitOps == {"find_m", "any_m", "all_m"}

Deciding ==
    IF op = "all_m" THEN (1..Len(src)) \ MatchesFwd ELSE MatchesFwd

\* C13: find_m, any_m and all_m stop at the first deciding element: the
\* test is invoked once on each source element up to and including that
\* one, in source order, and neither the test nor the source is asked for
\* any element after it.
C13_ShortCircuit ==
    op \in ShortCircuitOps
        => /\ Len(wargs) = front
           /\ \A i \in 1..Len(wargs) : wargs[i].val = src[i]
           /\ calls = wargs
           /\ \A i \in 1..(front - 1) : i \notin Deciding
           /\ pc = "loop" => (pulls = front /\ front \notin Deciding)
           /\ pc = "done"
                => IF Deciding = {}
                   THEN front = Len(src) /\ pulls = Len(src) + 1
                   ELSE front = MinOf(Deciding) /\ pulls = front

C13_Witness ==
    /\ op = "all_m" /\ pc = "done" /\ ret = Bool(FALSE)
    /\ Len(src) = 4 /\ front = 2 /\ pulls = 2 /\ Len(calls) = 2
    /\ Cardinality(Deciding) >= 2

============================================================================
